---- MODULE Spec2Model ----
(***************************************************************************)
(* Model of the VTK point-of-sale peripheral client (src/src/vtk.rs):      *)
(* the TLV record set (Tlv), the frame layout used by send/receive, and    *)
(* the connection life cycle of Vtk (connect, disconnect, send, receive,   *)
(* idle, disable, show_qr, drop).                                          *)
(*                                                                         *)
(* Byte vectors are sequences of integers 0..255; Rust's 0-based index i   *)
(* is the 1-based index i+1 here.  A string is the sequence of its         *)
(* Unicode scalar values; as_bytes is its UTF-8 encoding.                  *)
(***************************************************************************)
EXTENDS Integers, Sequences, FiniteSets, TLC

\* ------------------------------------------------------------------ bounds
\* Number of sockets one run may open (socket ids are 1..MaxSockets).
MaxSockets == 2

\* Longest value (in bytes) of the enumerated short record sets.
MaxValLen == 2

\* Longest byte vector of the exhaustively enumerated deserialize inputs.
MaxRawLen == 5

\* Most records of an input put together from complete records.
MaxRecs == 3

\* ------------------------------------------------------- program constants
\* u8 and u16 moduli of the `as u8` / `as u16` conversions.
U8 == 256
U16 == 65536

\* Capacity of the receive buffer: let mut buf: [u8;512].
BufSize == 512

\* Offset at which receive starts decoding: &buf[4..].
HeaderLen == 4

\* A receive that rejects reads below 8 bytes only.
MinFrameLow == 9 - 1

\* Smallest read that receive accepts: if size < 9 { Err }.
MinFrame == 9

\* Read timeout used by idle and disable: self.receive(2000).
ReadTimeoutMs == 2000

\* enum TlvKey, #[repr(u8)]: the discriminants 0x01, 0x03 .. 0x14.
MsgName == 1
QrCodeData == 10
DisplayTimeInMs == 20
TlvKey == (1..20) \ {2}

\* Option<TcpStream>::None; sockets are numbered from 1.
None == 0

\* ----------------------------------------------------------------- helpers
Zeros(n) == [i \in 1..n |-> 0]

Perms(S) == {p \in [1..Cardinality(S) -> S] :
               \A i, j \in 1..Cardinality(S) : p[i] = p[j] => i = j}

\* str::as_bytes: UTF-8 of a string given as its scalar values (< 0x800).
Utf8(c) == IF c < 128 THEN <<c>> ELSE <<192 + (c \div 64), 128 + (c % 64)>>

RECURSIVE as_bytes(_)
as_bytes(s) == IF s = <<>> THEN <<>> ELSE Utf8(Head(s)) \o as_bytes(Tail(s))

\* ------------------------------------------------------------------- Tlv
\* Tlv::new: an empty HashMap<TlvKey, Vec<u8>>.
Tlv_new == [k \in {} |-> <<>>]

\* HashMap::insert.
insert(data, k, v) == [x \in (DOMAIN data) \cup {k} |-> IF x = k THEN v ELSE data[x]]

\* Tlv::set_bin and Tlv::set_str.
set_bin(data, key, bytes) == insert(data, key, bytes)

set_str(data, key, s) == insert(data, key, as_bytes(s))

\* num::FromPrimitive::from_u8 for TlvKey: Some(k) exactly for the
\* enumerated discriminants.
from_u8(k) == IF k \in TlvKey THEN [some |-> TRUE, k |-> k] ELSE [some |-> FALSE, k |-> 0]

\* deser_one whose bound test is >= : a record ending exactly at the end of
\* the input is refused.
deser_one_strict(raw, begin) ==
  IF begin > Len(raw) THEN [some |-> FALSE, panic |-> TRUE, k |-> 0, v |-> <<>>, len |-> 0]
  ELSE IF Len(raw) - begin < 2 THEN [some |-> FALSE, panic |-> FALSE, k |-> 0, v |-> <<>>, len |-> 0]
  ELSE LET k == raw[begin + 1]
           len == raw[begin + 2]
       IN IF begin + len + 2 >= Len(raw)
          THEN [some |-> FALSE, panic |-> FALSE, k |-> 0, v |-> <<>>, len |-> 0]
          ELSE [some |-> TRUE, panic |-> FALSE, k |-> k,
                v |-> SubSeq(raw, begin + 3, begin + len + 2), len |-> len + 2]

\* deser_one that hands out what is left of a value cut short by the end of
\* the input.
deser_one_partial(raw, begin) ==
  IF begin > Len(raw) THEN [some |-> FALSE, panic |-> TRUE, k |-> 0, v |-> <<>>, len |-> 0]
  ELSE IF Len(raw) - begin < 2 THEN [some |-> FALSE, panic |-> FALSE, k |-> 0, v |-> <<>>, len |-> 0]
  ELSE LET k == raw[begin + 1]
           len == raw[begin + 2]
       IN IF begin + len + 2 > Len(raw)
          THEN [some |-> TRUE, panic |-> FALSE, k |-> k,
                v |-> SubSeq(raw, begin + 3, Len(raw)), len |-> Len(raw) - begin]
          ELSE [some |-> TRUE, panic |-> FALSE, k |-> k,
                v |-> SubSeq(raw, begin + 3, begin + len + 2), len |-> len + 2]

\* deser_one that reports the value's length, not the record's, as the
\* distance to the next record.
deser_one_short(raw, begin) ==
  IF begin > Len(raw) THEN [some |-> FALSE, panic |-> TRUE, k |-> 0, v |-> <<>>, len |-> 0]
  ELSE IF Len(raw) - begin < 2 THEN [some |-> FALSE, panic |-> FALSE, k |-> 0, v |-> <<>>, len |-> 0]
  ELSE LET k == raw[begin + 1]
           len == raw[begin + 2]
       IN IF begin + len + 2 > Len(raw)
          THEN [some |-> FALSE, panic |-> FALSE, k |-> 0, v |-> <<>>, len |-> 0]
          ELSE [some |-> TRUE, panic |-> FALSE, k |-> k,
                v |-> SubSeq(raw, begin + 3, begin + len + 2), len |-> len]

\* Tlv::deser_one(raw, begin), begin 0-based.  raw.len() - begin is a usize
\* subtraction: with begin > raw.len() it panics on overflow in a checked
\* build and wraps in an unchecked one, where raw[begin] then panics on the
\* index; both builds abort, which is the `panic` result.
deser_one(raw, begin) ==
  IF begin > Len(raw) THEN [some |-> FALSE, panic |-> TRUE, k |-> 0, v |-> <<>>, len |-> 0]
  ELSE IF Len(raw) - begin < 2 THEN [some |-> FALSE, panic |-> FALSE, k |-> 0, v |-> <<>>, len |-> 0]
  ELSE LET k == raw[begin + 1]
           len == raw[begin + 2]
       IN IF begin + len + 2 > Len(raw)
          THEN [some |-> FALSE, panic |-> FALSE, k |-> 0, v |-> <<>>, len |-> 0]
          ELSE [some |-> TRUE, panic |-> FALSE, k |-> k,
                v |-> SubSeq(raw, begin + 3, begin + len + 2), len |-> len + 2]

\* deserialize whose loop breaks at a record with a tag that is not enumerated.
deser_step_stop(raw, s) ==
  IF s.done THEN s
  ELSE LET r == deser_one(raw, s.i)
       IN IF r.some /\ from_u8(r.k).some
          THEN [s EXCEPT !.i = @ + r.len,
                         !.offs = Append(@, s.i),
                         !.data = insert(@, from_u8(r.k).k, r.v)]
          ELSE [s EXCEPT !.done = TRUE, !.offs = Append(@, s.i), !.panic = r.panic]

\* One iteration of the loop of Tlv::deserialize at offset s.i with the map
\* s.data built so far; `done` is the break, `offs` lists the offsets
\* deser_one has been called with.
deser_step(raw, s) ==
  IF s.done THEN s
  ELSE LET r == deser_one(raw, s.i)
       IN IF r.some
          THEN LET key == from_u8(r.k)
               IN [s EXCEPT !.i = @ + r.len,
                            !.offs = Append(@, s.i),
                            !.data = IF key.some THEN insert(@, key.k, r.v) ELSE @]
          ELSE [s EXCEPT !.done = TRUE, !.offs = Append(@, s.i), !.panic = r.panic]

\* n iterations of the loop: the first half, then the rest from the state h
\* the first half ends in (split in halves to keep the evaluation shallow).
RECURSIVE deser_run(_, _, _)
deser_run(raw, s, n) ==
  IF n = 0 THEN s
  ELSE IF n = 1 THEN deser_step(raw, s)
  ELSE CHOOSE t \in {deser_run(raw, h, n - (n \div 2)) :
                        h \in {deser_run(raw, s, n \div 2)}} : TRUE

\* The loop of Tlv::deserialize, run for Len(raw) + 1 iterations: `done`
\* tells whether it has reached its break by then.
deser_loop(raw) ==
  deser_run(raw, [i |-> 0, data |-> Tlv_new, done |-> FALSE, panic |-> FALSE, offs |-> <<>>],
            Len(raw) + 1)

\* Tlv::deserialize.
deserialize(raw) == deser_loop(raw).data

\* One iteration of the for loop of Tlv::serialize: tag, `v.len() as u8`,
\* then every byte of v.
ser_entry(k, v) == <<k, Len(v) % U8>> \o v

\* Tlv::serialize; `order` is the order in which the HashMap iterator
\* yields the entries (any permutation of the keys).
RECURSIVE serialize(_, _)
serialize(data, order) ==
  IF order = <<>> THEN <<>>
  ELSE ser_entry(Head(order), data[Head(order)]) \o serialize(data, Tail(order))

\* ------------------------------------------------------------- Vtk: state
VARIABLES
  tcp,      \* Vtk.tcp: None or the socket held
  opened,   \* number of sockets opened so far by TcpStream::connect
  open,     \* sockets opened and not yet closed (their TcpStream not dropped)
  alive,    \* FALSE once the Vtk instance has been dropped
  last,     \* record of the latest call: its I/O events, frame and result
  tlv,      \* codec run: the record set under construction / decoded
  wire,     \* codec run: the byte vector produced by serialize or fed in
  src,      \* codec run: where `wire` comes from: the record set serialized
            \* into it (enc) or the records it was put together from
  step      \* codec run: the latest codec operation

vars == <<tcp, opened, open, alive, last, tlv, wire, src, step>>
linkVars == <<tcp, opened, open, alive, last>>
codecVars == <<tlv, wire, src, step>>

\* Result<_, Error>: Ok or the failing step.
Ok == "Ok"

\* One I/O event of a call: the system call, its socket, its outcome.
Ev(kind, sock, ok) == [kind |-> kind, sock |-> sock, ok |-> ok]

\* Option<Tlv>: the value a call hands back, if it decoded one.
NoTlv == [some |-> FALSE, data |-> Tlv_new]
SomeTlv(t) == [some |-> TRUE, data |-> t]

\* What the call before this one was, as far as the next call is concerned.
Before == IF last.op = "connect" /\ last.err = Ok THEN "connect_ok"
          ELSE IF last.op = "disconnect" THEN "disconnect"
          ELSE IF /\ last.op \in {"idle", "disable", "show_qr"}
                  /\ last.err \in {"WriteError", "ReadError", "ShortFrame"}
               THEN "exchange_err"
          ELSE "other"

\* The running state of one call: the Vtk fields, the events so far, the
\* frame written, the bytes read, the value returned and the result; `pre`
\* is Vtk.tcp when the call started, `after` the call that preceded it, `arg`
\* the record set the caller passed, if any.
Enter(op) == [op |-> op, after |-> Before, pre |-> tcp, arg |-> NoTlv,
              tcp |-> tcp, opened |-> opened, open |-> open,
              ev |-> <<>>, tx |-> <<>>, rx |-> <<>>, ret |-> NoTlv, err |-> Ok]

Call(op, t) == [Enter(op) EXCEPT !.arg = SomeTlv(t)]

Log(m, kind, sock, ok) == [m EXCEPT !.ev = Append(@, Ev(kind, sock, ok))]

Fail(m, e) == [m EXCEPT !.err = e]

\* ------------------------------------------------------- Vtk: operations
\* Each operation maps the state of the call to the set of states it can
\* return in, one per outcome of the system calls it makes.  The `?` after a
\* step reads: IF x.err = Ok THEN <the rest> ELSE {x}.

\* connect without the is_none test: a socket is opened on every call.
connect_reopen(m) ==
  LET id == m.opened + 1
      m1 == [Log(m, "connect", id, TRUE) EXCEPT
               !.tcp = id, !.opened = id, !.open = @ \cup {id}]
  IN {Fail(Log(m, "connect", None, FALSE), "ConnectError"),
      Fail(Log(m1, "set_write_timeout", id, FALSE), "SetWriteTimeoutError"),
      Log(m1, "set_write_timeout", id, TRUE)}

\* Vtk::connect.
connect(m) ==
  IF m.tcp = None
  THEN LET id == m.opened + 1
           m1 == [Log(m, "connect", id, TRUE) EXCEPT
                    !.tcp = id, !.opened = id, !.open = @ \cup {id}]
       IN {Fail(Log(m, "connect", None, FALSE), "ConnectError"),
           Fail(Log(m1, "set_write_timeout", id, FALSE), "SetWriteTimeoutError"),
           Log(m1, "set_write_timeout", id, TRUE)}
  ELSE {m}

\* disconnect that empties the field but never closes the taken stream.
disconnect_leak(m) ==
  IF m.tcp # None
  THEN {[Log(m, "shutdown", m.tcp, ok) EXCEPT !.tcp = None] : ok \in BOOLEAN}
  ELSE {m}

\* disconnect that gives up when the shutdown fails, keeping the socket.
disconnect_strict(m) ==
  IF m.tcp # None
  THEN {[Log(Log(m, "shutdown", m.tcp, TRUE), "close", m.tcp, TRUE) EXCEPT
           !.tcp = None, !.open = @ \ {m.tcp}],
        Log(m, "shutdown", m.tcp, FALSE)}
  ELSE {m}

\* Vtk::disconnect: take() empties the field, the shutdown result is
\* ignored, and the taken TcpStream is dropped (closed) at the end of the arm.
disconnect(m) ==
  IF m.tcp # None
  THEN {[Log(Log(m, "shutdown", m.tcp, ok), "close", m.tcp, TRUE) EXCEPT
           !.tcp = None, !.open = @ \ {m.tcp}] : ok \in BOOLEAN}
  ELSE {m}

\* The frame built by Vtk::send from the serialized record set.
frame(payload) ==
  LET len == (Len(payload) + 2) % U16
  IN <<len \div U8, len % U8, 150, 251>> \o payload

\* self.tcp.as_mut().unwrap().write_all(&buf): the unwrap panics on None.
write_all(m, buf) ==
  IF m.tcp = None THEN {Fail(m, "Panic")}
  ELSE {Fail(Log(m, "write", m.tcp, FALSE), "WriteError"),
        [Log(m, "write", m.tcp, TRUE) EXCEPT !.tx = buf]}

\* write_all run again after a failure.
write_twice(m, buf) ==
  IF m.tcp = None THEN {Fail(m, "Panic")}
  ELSE {Fail(Log(Log(m, "write", m.tcp, FALSE), "write", m.tcp, FALSE), "WriteError"),
        [Log(Log(m, "write", m.tcp, FALSE), "write", m.tcp, TRUE) EXCEPT !.tx = buf],
        [Log(m, "write", m.tcp, TRUE) EXCEPT !.tx = buf]}

\* send that writes the frame a second time when the first write fails.
send_retry(m, msg_name, t) ==
  LET t1 == set_str(t, MsgName, msg_name)
  IN UNION {UNION {IF c.err = Ok THEN write_twice(c, frame(serialize(t1, order))) ELSE {c}
                   : c \in connect(m)}
            : order \in Perms(DOMAIN t1)}

\* send that writes without the connect before.
send_unconnected(m, msg_name, t) ==
  LET t1 == set_str(t, MsgName, msg_name)
  IN UNION {write_all(m, frame(serialize(t1, order))) : order \in Perms(DOMAIN t1)}

\* Vtk::send.
send(m, msg_name, t) ==
  LET t1 == set_str(t, MsgName, msg_name)
  IN UNION {UNION {IF c.err = Ok THEN write_all(c, frame(serialize(t1, order))) ELSE {c}
                   : c \in connect(m)}
            : order \in Perms(DOMAIN t1)}

\* Bytes one read may deliver into the buffer: every prefix of a reply
\* {MsgName: "IDL", QrCodeData: "ab"}, and replies with a wrong header, an
\* unknown tag and a cut last record.
RxReply == <<0, 13, 150, 251, 1, 3, 73, 68, 76, 10, 2, 97, 98>>

RxInputs == {SubSeq(RxReply, 1, n) : n \in 0..Len(RxReply)}
            \cup {<<0, 0, 0, 0, 2, 1, 9, 1, 1, 68>>,
                  <<0, 0, 0, 0, 2, 1, 9, 1, 1, 68, 10>>,
                  <<9, 9, 1, 1, 1, 3, 73, 68, 76>>}

\* The buffer of Vtk::receive after a read of rx: [0;512] with the bytes
\* read at its start.
read_buf(rx) == rx \o Zeros(BufSize - Len(rx))

\* A decoding that gives the empty record set unless the magic is 0x96 0xFB.
decode_buf_magic(buf) ==
  IF buf[3] = 150 /\ buf[4] = 251
  THEN deserialize(SubSeq(buf, HeaderLen + 1, BufSize))
  ELSE Tlv_new

\* Ok(Tlv::deserialize(&buf[4..].to_vec())).
decode_buf(buf) == deserialize(SubSeq(buf, HeaderLen + 1, BufSize))

\* The possible reads, each with the size read() returns and the record set
\* Vtk::receive decodes from the buffer (evaluated once per input).
Reads == {[rx |-> rx, size |-> Len(rx), tlv |-> decode_buf(read_buf(rx))] : rx \in RxInputs}

\* The part of Vtk::receive after its connect: set_read_timeout (which
\* rejects a zero duration), one read, the size test and the decoding.
read_reply(m, timeout_ms) ==
  IF m.tcp = None THEN {Fail(m, "Panic")}
  ELSE
    {Fail(Log(m, "set_read_timeout", m.tcp, FALSE), "SetReadTimeoutError")}
    \cup (IF timeout_ms = 0 THEN {} ELSE
      LET t == Log(m, "set_read_timeout", m.tcp, TRUE)
      IN {Fail(Log(t, "read", t.tcp, FALSE), "ReadError")}
         \cup {LET r == [Log(t, "read", t.tcp, TRUE) EXCEPT !.rx = rd.rx]
               IN IF rd.size < MinFrame
                  THEN Fail(r, "ShortFrame")
                  ELSE [r EXCEPT !.ret = SomeTlv(rd.tlv)]
               : rd \in Reads})

\* Vtk::receive.
receive(m, timeout_ms) ==
  UNION {IF c.err = Ok THEN read_reply(c, timeout_ms) ELSE {c} : c \in connect(m)}

\* `_ = self.receive(2000)?`: the error is returned, the reply is discarded.
receive_discard(m) ==
  {IF r.err = Ok THEN [r EXCEPT !.ret = NoTlv] ELSE r : r \in receive(m, ReadTimeoutMs)}

\* idle without the leading disconnect.
idle_reuse(m, add) ==
  LET s1 == send(m, <<73, 68, 76>>, add)
      s2 == UNION {IF x.err = Ok THEN receive_discard(x) ELSE {x} : x \in s1}
  IN UNION {IF x.err = Ok THEN disconnect(x) ELSE {x} : x \in s2}

\* idle without the trailing disconnect.
idle_keep(m, add) ==
  LET s1 == UNION {send(x, <<73, 68, 76>>, add) : x \in disconnect(m)}
  IN UNION {IF x.err = Ok THEN receive_discard(x) ELSE {x} : x \in s1}

\* idle that disconnects on its way out whether the exchange failed or not.
idle_tidy(m, add) ==
  LET s1 == UNION {send(x, <<73, 68, 76>>, add) : x \in disconnect(m)}
      s2 == UNION {IF x.err = Ok THEN receive_discard(x) ELSE {x} : x \in s1}
  IN UNION {disconnect(x) : x \in s2}

\* Vtk::idle; `add` is the Option<Tlv> argument, None being Tlv::new().
idle(m, add) ==
  LET s1 == UNION {send(x, <<73, 68, 76>>, add) : x \in disconnect(m)}
      s2 == UNION {IF x.err = Ok THEN receive_discard(x) ELSE {x} : x \in s1}
  IN UNION {IF x.err = Ok THEN disconnect(x) ELSE {x} : x \in s2}

\* Vtk::disable.
disable(m) ==
  LET s1 == UNION {send(x, <<68, 73, 83>>, Tlv_new) : x \in disconnect(m)}
  IN UNION {IF x.err = Ok THEN receive_discard(x) ELSE {x} : x \in s1}

\* Vtk::show_qr.
show_qr(m, qr) == idle(m, set_str(Tlv_new, QrCodeData, qr))

\* A drop that leaves the socket to the field's own destructor undone.
drop_noop(m) == {m}

\* impl Drop for Vtk.
drop(m) == disconnect(m)

\* ---------------------------------------------------------- Vtk: actions
\* Arguments the caller passes.
MsgNames == {<<73, 68, 76>>, <<68, 73, 83>>}

ArgTlvs == {Tlv_new,
            set_str(Tlv_new, QrCodeData, <<97, 98, 99>>),
            set_bin(set_str(Tlv_new, MsgName, <<88>>), QrCodeData, <<0>>),
            set_bin(Tlv_new, QrCodeData, Zeros(U8))}

\* Record sets handed to send: those, and one whose payload with the
\* 5 bytes of the MsgName record is 65534 bytes long.
SendTlvs == ArgTlvs \cup {set_bin(Tlv_new, QrCodeData, Zeros(U16 - 9))}

QrTexts == {<<>>, <<88>>, <<97, 98, 99>>, <<233>>}

Timeouts == {0, ReadTimeoutMs}

\* The call returns in state r: the fields of Vtk take its values.
Return(r) ==
  /\ tcp' = r.tcp
  /\ opened' = r.opened
  /\ open' = r.open
  /\ last' = r
  /\ UNCHANGED <<alive, codecVars>>

\* A call that opens a socket needs a free socket id.
CanOpen == opened < MaxSockets

\* Vtk::new.
LinkInit ==
  /\ tcp = None
  /\ opened = 0
  /\ open = {}
  /\ alive = TRUE
  /\ last = [op |-> "new", after |-> "other", pre |-> None, arg |-> NoTlv,
             tcp |-> None, opened |-> 0, open |-> {},
             ev |-> <<>>, tx |-> <<>>, rx |-> <<>>, ret |-> NoTlv, err |-> Ok]

\* `wire` is no encoding of a record set.
NoSrc == [enc |-> FALSE, data |-> Tlv_new, recs |-> <<>>]

\* Tlv::new, with nothing serialized yet.
CodecIdle ==
  /\ tlv = Tlv_new
  /\ wire = <<>>
  /\ src = NoSrc
  /\ step = "new"

Init == LinkInit /\ CodecIdle

Connect ==
  /\ alive /\ (tcp # None \/ CanOpen)
  /\ \E r \in connect(Enter("connect")) : Return(r)

Disconnect ==
  /\ alive
  /\ \E r \in disconnect(Enter("disconnect")) : Return(r)

Send ==
  /\ alive /\ (tcp # None \/ CanOpen)
  /\ \E n \in MsgNames, t \in ArgTlvs : \E r \in send(Call("send", t), n, t) : Return(r)

Receive ==
  /\ alive /\ (tcp # None \/ CanOpen)
  /\ \E ms \in Timeouts : \E r \in receive(Enter("receive"), ms) : Return(r)

Idle ==
  /\ alive /\ CanOpen
  /\ \E add \in ArgTlvs : \E r \in idle(Call("idle", add), add) : Return(r)

Disable ==
  /\ alive /\ CanOpen
  /\ \E r \in disable(Enter("disable")) : Return(r)

ShowQr ==
  /\ alive /\ CanOpen
  /\ \E qr \in QrTexts :
       \E r \in show_qr(Call("show_qr", [k \in {QrCodeData} |-> as_bytes(qr)]), qr) : Return(r)

Drop ==
  /\ alive
  /\ alive' = FALSE
  /\ \E r \in drop(Enter("drop")) :
       /\ tcp' = r.tcp
       /\ opened' = r.opened
       /\ open' = r.open
       /\ last' = r
  /\ UNCHANGED codecVars

Next ==
  \/ Connect
  \/ Disconnect
  \/ Send
  \/ Receive
  \/ Idle
  \/ Disable
  \/ ShowQr
  \/ Drop

Spec == Init /\ [][Next]_vars

\* ------------------------------------------------- Vtk: frames of any size
\* send with record sets of every size, on a link connected and disconnected
\* by the caller.
SendAny ==
  /\ alive /\ (tcp # None \/ CanOpen)
  /\ \E n \in MsgNames, t \in SendTlvs : \E r \in send(Call("send", t), n, t) : Return(r)

FrameNext ==
  \/ Connect
  \/ Disconnect
  \/ SendAny

SpecFrame == Init /\ [][FrameNext]_vars

\* ---------------------------------------------------------- Tlv: actions
\* Keys, values and strings the caller stores; the long values reach and
\* pass the largest length one length byte can hold.
CodecKeys == {MsgName, QrCodeData, DisplayTimeInMs}

ShortVals == UNION {[1..n -> {0, 1}] : n \in 0..MaxValLen}

LongVals == {Zeros(U8 - 1), Zeros(U8)}

Strs == {<<>>, <<88>>, <<233>>}

\* Byte vectors handed to deserialize that no serialize produced.
RawInputs == {<<>>, <<1>>, <<1, 0>>, <<1, 1>>, <<1, 2, 7>>, <<2, 1, 9, 1, 1, 68>>,
              <<99, 0, 10, 1, 5, 10>>, <<1, 1, 65, 1, 1, 66>>, <<0, 255, 1, 0>>}

\* The run follows one value at a time: storing into the record set lets go
\* of the byte vector of an earlier serialize.
Unencoded ==
  /\ wire' = <<>>
  /\ src' = NoSrc

SetBin ==
  /\ \E k \in CodecKeys, v \in ShortVals \cup LongVals : tlv' = set_bin(tlv, k, v)
  /\ step' = "set_bin"
  /\ Unencoded
  /\ UNCHANGED linkVars

SetStr ==
  /\ \E k \in CodecKeys, str \in Strs : tlv' = set_str(tlv, k, str)
  /\ step' = "set_str"
  /\ Unencoded
  /\ UNCHANGED linkVars

\* Tlv::serialize consumes the record set; the run goes on with a new one.
Serialize ==
  /\ \E order \in Perms(DOMAIN tlv) :
       /\ wire' = serialize(tlv, order)
       /\ src' = [enc |-> TRUE, data |-> tlv,
                  recs |-> [i \in 1..Len(order) |-> <<order[i], tlv[order[i]]>>]]
  /\ tlv' = Tlv_new
  /\ step' = "serialize"
  /\ UNCHANGED linkVars

Feed ==
  /\ \E raw \in RawInputs : wire' = raw
  /\ src' = NoSrc
  /\ tlv' = Tlv_new
  /\ step' = "feed"
  /\ UNCHANGED linkVars

Deserialize ==
  /\ tlv' = deserialize(wire)
  /\ step' = "deserialize"
  /\ UNCHANGED <<wire, src, linkVars>>

TlvNext ==
  \/ SetBin
  \/ SetStr
  \/ Serialize
  \/ Feed
  \/ Deserialize

SpecTlv == Init /\ [][TlvNext]_vars

\* ------------------------------------------------- Tlv: arbitrary input
\* Every byte vector of up to MaxRawLen bytes over tags that are enumerated
\* (1, 3) and not (0, 2, 255), read as lengths also.
ScanBytes == {0, 1, 2, 3, 255}

ScanInputs == UNION {[1..n -> ScanBytes] : n \in 0..MaxRawLen}

ScanInit ==
  /\ LinkInit
  /\ tlv = Tlv_new
  /\ wire \in ScanInputs
  /\ src = NoSrc
  /\ step = "feed"

ScanNext == Deserialize

SpecScan == ScanInit /\ [][ScanNext]_vars

\* ------------------------------------------- Tlv: input of complete records
\* Tag bytes that are enumerated (MsgName, QrCodeData) and that are not.
SkipTags == {0, 2, 21, MsgName, QrCodeData}

\* Values, one of them the two bytes of an empty QrCodeData record.
SkipVals == {<<>>, <<1>>, <<QrCodeData, 0>>}

SkipRecs == UNION {[1..n -> SkipTags \X SkipVals] : n \in 0..MaxRecs}

\* The records one after another: tag, length byte, value.
RECURSIVE Cat(_)
Cat(recs) == IF recs = <<>> THEN <<>> ELSE ser_entry(Head(recs)[1], Head(recs)[2]) \o Cat(Tail(recs))

SkipInit ==
  /\ LinkInit
  /\ tlv = Tlv_new
  /\ \E recs \in SkipRecs :
       /\ wire = Cat(recs)
       /\ src = [enc |-> FALSE, data |-> Tlv_new, recs |-> recs]
  /\ step = "feed"

SkipNext == Deserialize

SpecSkip == SkipInit /\ [][SkipNext]_vars

\* ------------------------------------------------- Tlv: truncated input
\* Record sets whose encodings are cut: one or two entries, short values
\* and the longest value a length byte can describe.
TruncKeys == {MsgName, QrCodeData}

TruncSets == UNION {[K -> ShortVals \cup {Zeros(U8 - 1)}] : K \in SUBSET TruncKeys}

TruncInit ==
  /\ LinkInit
  /\ tlv \in TruncSets
  /\ wire = <<>>
  /\ src = NoSrc
  /\ step = "new"

\* The byte vector of a serialize is cut to one of its prefixes before it
\* reaches deserialize.
Truncate ==
  /\ step = "serialize"
  /\ \E n \in 0..Len(wire) : wire' = SubSeq(wire, 1, n)
  /\ step' = "truncate"
  /\ UNCHANGED <<tlv, src, linkVars>>

TruncNext ==
  \/ Serialize
  \/ Truncate
  \/ Deserialize

SpecTrunc == TruncInit /\ [][TruncNext]_vars

\* ------------------------------------------------------------ properties
\* The events of the latest call.
Idx == 1..Len(last.ev)

Kind(i) == last.ev[i].kind

\* The latest call is one of the three device operations.
IsExchange == last.op \in {"idle", "disable", "show_qr"}

\* Sockets open after the first n events of the latest call: the one held on
\* entry and those connected, less those closed.
HeldAt(n) ==
  (({last.pre} \ {None})
     \cup {last.ev[i].sock : i \in {j \in 1..n : Kind(j) = "connect" /\ last.ev[j].ok}})
  \ {last.ev[i].sock : i \in {j \in 1..n : Kind(j) = "close"}}

\* C1: at every point of every call the instance owns at most one open
\* socket, the link holds a socket exactly when one is open, and a socket is
\* connected only when none is held.
C1_AtMostOneSocket ==
  /\ open = (IF tcp = None THEN {} ELSE {tcp})
  /\ \A n \in 0..Len(last.ev) : Cardinality(HeldAt(n)) <= 1
  /\ \A n \in Idx : Kind(n) = "connect" => HeldAt(n - 1) = {}

\* A second socket is held after the first one was given up.
C1_Witness == tcp # None /\ opened >= 2 /\ open = {tcp}

\* C2: a connect right after a successful connect returns Ok, makes no
\* system call and keeps the socket; a disconnect right after a disconnect
\* makes no system call and leaves the link Disconnected.
C2_Idempotent ==
  /\ (last.op = "connect" /\ last.after = "connect_ok") =>
        (last.err = Ok /\ last.ev = <<>> /\ tcp = last.pre /\ tcp # None)
  /\ (last.op = "disconnect" /\ last.after = "disconnect") =>
        (last.ev = <<>> /\ tcp = None)

\* A connect has just followed a successful connect.
C2_Witness == last.op = "connect" /\ last.after = "connect_ok" /\ tcp # None

\* C3: every write and read of idle, disable or show_qr is on a socket that
\* was connected earlier in that same call, never the socket held on entry,
\* and all of them are on one socket.
C3_NoSessionReuse ==
  IsExchange =>
    \A i \in Idx : Kind(i) \in {"write", "read"} =>
      /\ last.ev[i].sock # last.pre
      /\ \E j \in 1..(i - 1) : /\ Kind(j) = "connect"
                               /\ last.ev[j].ok
                               /\ last.ev[j].sock = last.ev[i].sock
      /\ \A k \in Idx : Kind(k) \in {"write", "read"} => last.ev[k].sock = last.ev[i].sock

\* A device operation that started Connected has written and read.
C3_Witness ==
  /\ IsExchange
  /\ last.pre # None
  /\ \E i, j \in Idx : Kind(i) = "write" /\ last.ev[i].ok /\ Kind(j) = "read" /\ last.ev[j].ok

\* C4: idle and show_qr returning Ok leave the link Disconnected, disable
\* returning Ok leaves it Connected.
C4_AsymmetricEnd ==
  /\ (last.op \in {"idle", "show_qr"} /\ last.err = Ok) => tcp = None
  /\ (last.op = "disable" /\ last.err = Ok) => tcp # None

\* idle has returned Ok on a link that was Connected when it started.
C4_Witness == last.op = "idle" /\ last.err = Ok /\ last.pre # None

\* The error a failed system call of the given kind surfaces as.
ErrOf(kind) ==
  CASE kind = "connect" -> "ConnectError"
    [] kind = "set_write_timeout" -> "SetWriteTimeoutError"
    [] kind = "write" -> "WriteError"
    [] kind = "set_read_timeout" -> "SetReadTimeoutError"
    [] kind = "read" -> "ReadError"
    [] OTHER -> "none"

\* Event i is a failure of the exchange: a failed system call other than the
\* best-effort shutdown, or a read of fewer than 9 bytes.
FailsAt(i) ==
  \/ ~last.ev[i].ok /\ Kind(i) # "shutdown"
  \/ Kind(i) = "read" /\ last.ev[i].ok /\ Len(last.rx) < 9

ErrAt(i) == IF last.ev[i].ok THEN "ShortFrame" ELSE ErrOf(Kind(i))

\* C5: a device operation makes at most one connect, one write and one
\* read, in that order, each only after the one before succeeded; nothing
\* follows the first failure, and that failure is the error returned.
C5_FailFast ==
  IsExchange =>
    /\ \A i, j \in Idx : (Kind(i) = Kind(j) /\ Kind(i) \in {"connect", "write", "read"}) => i = j
    /\ \A i \in Idx : Kind(i) = "write" =>
         \E j \in 1..(i - 1) : Kind(j) = "connect" /\ last.ev[j].ok
    /\ \A i \in Idx : Kind(i) = "read" =>
         \E j \in 1..(i - 1) : Kind(j) = "write" /\ last.ev[j].ok
    /\ \A i \in Idx : FailsAt(i) => (i = Len(last.ev) /\ last.err = ErrAt(i))
    /\ (\A i \in Idx : ~FailsAt(i)) => last.err = Ok

\* idle has returned the write error, having made no read.
C5_Witness ==
  /\ last.op = "idle"
  /\ last.err = "WriteError"
  /\ \E i \in Idx : Kind(i) = "write"
  /\ \A i \in Idx : Kind(i) # "read"

\* C6: once the instance is dropped, disconnect has run: the socket held at
\* the drop has been closed and no socket the instance opened is open.
C6_DropReleases ==
  ~alive =>
    /\ last.op = "drop"
    /\ tcp = None
    /\ open = {}
    /\ last.pre # None => \E i \in Idx : Kind(i) = "close" /\ last.ev[i].sock = last.pre

\* The instance was dropped while Connected.
C6_Witness == ~alive /\ last.pre # None /\ opened >= 1

\* C7: disconnect returns without error in the Disconnected state, having
\* closed the socket it held, also when the shutdown failed; called while
\* Disconnected it makes no system call.
C7_DisconnectSafe ==
  last.op = "disconnect" =>
    /\ last.err = Ok
    /\ tcp = None
    /\ open = {}
    /\ last.pre = None => last.ev = <<>>
    /\ last.pre # None => \E i \in Idx : Kind(i) = "close" /\ last.ev[i].sock = last.pre

\* disconnect was called while Connected and the shutdown failed.
C7_Witness ==
  /\ last.op = "disconnect"
  /\ last.pre # None
  /\ \E i \in Idx : Kind(i) = "shutdown" /\ ~last.ev[i].ok

\* The latest call got bytes from its read.
HasRead == \E i \in Idx : Kind(i) = "read" /\ last.ev[i].ok

\* C8: a read of fewer than 9 bytes makes receive fail with the short-frame
\* error without decoding anything; a read of 9 bytes or more never gives
\* the short-frame error, and receive returns a decoded record set.
C8_ShortFrame ==
  (last.op = "receive" /\ HasRead) =>
    IF Len(last.rx) < 9
    THEN last.err = "ShortFrame" /\ ~last.ret.some
    ELSE last.err = Ok /\ last.ret.some

\* receive has read exactly 8 bytes and failed with the short-frame error.
C8_Witness ==
  /\ last.op = "receive"
  /\ HasRead
  /\ Len(last.rx) = 8
  /\ last.err = "ShortFrame"

\* C9: the record set receive returns is the decoding of the bytes read
\* beyond the 4-byte header, and of nothing else.
C9_DecodesReceivedOnly ==
  (last.op = "receive" /\ last.ret.some) =>
    last.ret.data = deserialize(SubSeq(last.rx, 5, Len(last.rx)))

\* C10: deserialize applied to a serialization, in any entry order, of a
\* record set whose values are at most 255 bytes long gives that record set.
C10_RoundTrip ==
  (/\ step = "deserialize"
   /\ src.enc
   /\ \A k \in DOMAIN src.data : Len(src.data[k]) <= 255) => tlv = src.data

\* A record set of several entries, one of them 255 bytes long, has been
\* serialized and deserialized.
C10_Witness ==
  /\ step = "deserialize"
  /\ src.enc
  /\ Cardinality(DOMAIN src.data) >= 2
  /\ \A k \in DOMAIN src.data : Len(src.data[k]) <= 255
  /\ \E k \in DOMAIN src.data : Len(src.data[k]) = 255

\* Offset just past record j of a byte vector put together from recs: each
\* record takes its tag byte, its length byte and its value.
RECURSIVE RecEnd(_, _)
RecEnd(recs, j) == IF j = 0 THEN 0 ELSE RecEnd(recs, j - 1) + 2 + Len(recs[j][2])

\* C11: deserialize applied to a prefix of a serialization of a record set
\* (values at most 255 bytes) gives a sub-mapping of that record set: each
\* tag it holds has the record set's value, and every record that lies
\* wholly inside the prefix is there.
C11_TruncationSafe ==
  (/\ step = "deserialize"
   /\ src.enc
   /\ \A k \in DOMAIN src.data : Len(src.data[k]) <= 255) =>
     /\ \A k \in DOMAIN tlv : k \in DOMAIN src.data /\ tlv[k] = src.data[k]
     /\ \A j \in 1..Len(src.recs) :
          RecEnd(src.recs, j) <= Len(wire) => src.recs[j][1] \in DOMAIN tlv

\* An encoding of two records was cut inside its second record, and
\* deserialize gave the first record only.
C11_Witness ==
  /\ step = "deserialize"
  /\ src.enc
  /\ Len(src.recs) = 2
  /\ RecEnd(src.recs, 1) < Len(wire)
  /\ Len(wire) < RecEnd(src.recs, 2)
  /\ DOMAIN tlv = {src.recs[1][1]}

\* C12: on any byte vector the loop of deserialize reaches its break without
\* a panic; every offset it calls deser_one with lies in 0..length, so the
\* subtraction length - offset does not underflow; the first offset is 0 and
\* each later one is at least 2 beyond the one before.
C12_ScanTerminates ==
  step = "deserialize" =>
    LET r == deser_loop(wire)
    IN /\ r.done
       /\ ~r.panic
       /\ r.offs # <<>>
       /\ r.offs[1] = 0
       /\ r.offs[Len(r.offs)] = r.i
       /\ \A n \in 1..Len(r.offs) : 0 <= r.offs[n] /\ r.offs[n] <= Len(wire)
       /\ \A n \in 1..(Len(r.offs) - 1) : r.offs[n + 1] >= r.offs[n] + 2

\* deserialize has read two records and stopped with bytes left over.
C12_Witness ==
  /\ step = "deserialize"
  /\ Len(deser_loop(wire).offs) = 3
  /\ deser_loop(wire).i < Len(wire)

\* Records of the input with an enumerated tag, and the last one of a tag.
KnownAt(recs) == {j \in 1..Len(recs) : recs[j][1] \in TlvKey}

LastOf(recs, k) == CHOOSE j \in KnownAt(recs) :
  recs[j][1] = k /\ \A u \in KnownAt(recs) : recs[u][1] = k => u <= j

\* C13 as stated: on an input of complete records no record with a tag that
\* is not enumerated is in the result, and every record with an enumerated
\* tag that follows such a record is in the result with its own value.
C13_SkipEveryRecord ==
  (step = "deserialize" /\ ~src.enc) =>
    /\ \A j \in 1..Len(src.recs) : src.recs[j][1] \notin TlvKey => src.recs[j][1] \notin DOMAIN tlv
    /\ \A j \in KnownAt(src.recs) :
         (\E u \in 1..(j - 1) : src.recs[u][1] \notin TlvKey) =>
           /\ src.recs[j][1] \in DOMAIN tlv
           /\ tlv[src.recs[j][1]] = src.recs[j][2]

\* C13, amended: on an input of complete records deserialize visits the start
\* of every record and the end of the input, whatever the tags; the result
\* holds exactly the enumerated tags of the input, each with the value of the
\* last record of that tag.
C13_SkipKeepsSync ==
  (step = "deserialize" /\ ~src.enc) =>
    /\ deser_loop(wire).offs = [n \in 1..(Len(src.recs) + 1) |-> RecEnd(src.recs, n - 1)]
    /\ DOMAIN tlv = {src.recs[j][1] : j \in KnownAt(src.recs)}
    /\ \A k \in DOMAIN tlv : tlv[k] = src.recs[LastOf(src.recs, k)][2]

\* A record with tag 0x15 whose value reads as a record, between two records
\* with enumerated tags, both recovered.
C13_Witness ==
  /\ step = "deserialize"
  /\ ~src.enc
  /\ Len(src.recs) = 3
  /\ src.recs[1] = <<MsgName, <<1>>>>
  /\ src.recs[2] = <<21, <<QrCodeData, 0>>>>
  /\ src.recs[3] = <<QrCodeData, <<1>>>>
  /\ tlv = [k \in {MsgName, QrCodeData} |-> <<1>>]

\* C15: whatever set_bin, set_str and deserialize have been applied, every
\* stored value is at most 255 bytes long, and in the output of serialize
\* the length byte of every record is the byte length of its value.
C15_LengthInvariant ==
  /\ \A k \in DOMAIN tlv : Len(tlv[k]) <= 255
  /\ (step = "serialize" /\ src.enc) =>
       \A j \in 1..Len(src.recs) :
         wire[RecEnd(src.recs, j - 1) + 2] = Len(src.recs[j][2])

\* C14: the bytes send writes are the payload's byte count plus 2 as two
\* big-endian bytes, then 0x96 0xFB, then the serialized record set with
\* MsgName set; the length field is the number of bytes that follow it.
C14_FrameLayout ==
  (last.op = "send" /\ last.tx # <<>>) =>
    /\ Len(last.tx) >= 4
    /\ last.tx[1] * U8 + last.tx[2] = Len(last.tx) - 2
    /\ last.tx[3] = 150
    /\ last.tx[4] = 251
    /\ \E n \in MsgNames :
         LET t1 == set_str(last.arg.data, MsgName, n)
         IN \E order \in Perms(DOMAIN t1) :
              SubSeq(last.tx, 5, Len(last.tx)) = serialize(t1, order)

\* The record set a reader decodes from the payload of the frame written.
SentTlv == deserialize(SubSeq(last.tx, HeaderLen + 1, Len(last.tx)))

\* C16: the payload idle and show_qr write decodes to MsgName = "IDL" and
\* every other field of the caller's record set with the caller's value (a
\* MsgName of the caller is replaced); the payload disable writes decodes to
\* MsgName = "DIS" alone.
C16_RequestContent ==
  /\ (last.op \in {"idle", "show_qr"} /\ last.tx # <<>>) =>
       /\ MsgName \in DOMAIN SentTlv
       /\ SentTlv[MsgName] = <<73, 68, 76>>
       /\ \A k \in DOMAIN last.arg.data \ {MsgName} :
            k \in DOMAIN SentTlv /\ SentTlv[k] = last.arg.data[k]
  /\ (last.op = "disable" /\ last.tx # <<>>) =>
       SentTlv = [k \in {MsgName} |-> <<68, 73, 83>>]

\* The reads of as many bytes as the latest one that differ from it in
\* nothing but the first 4 bytes.
SameBody == {rd \in Reads : /\ rd.size = Len(last.rx)
                            /\ SubSeq(rd.rx, HeaderLen + 1, rd.size)
                                 = SubSeq(last.rx, HeaderLen + 1, Len(last.rx))}

\* C17: a receive that has read 9 bytes or more returns Ok whatever the
\* declared length and the magic are, and the record set it returns is the
\* one receive returns for every read of the same length with the same
\* bytes after the first 4.
C17_HeaderIgnored ==
  (last.op = "receive" /\ HasRead /\ Len(last.rx) >= 9) =>
    /\ last.err = Ok
    /\ last.ret.some
    /\ \A rd \in SameBody : rd.tlv = last.ret.data

\* receive has returned a record set for 9 bytes with a wrong length and a
\* wrong magic, and another read has the same bytes after another header.
C17_Witness ==
  /\ last.op = "receive"
  /\ last.ret.some
  /\ last.rx = <<9, 9, 1, 1, 1, 3, 73, 68, 76>>
  /\ \E rd \in SameBody : rd.rx # last.rx /\ rd.rx[3] = 150 /\ rd.rx[4] = 251

\* C18: no call panics on the unwrap of the socket; every write, read and
\* set_read_timeout is on a socket open at that point; send and receive on
\* a Disconnected link start with a connect; and a failed connect or
\* set_write_timeout is the last event of the call and the error returned.
C18_AutoConnect ==
  /\ last.err # "Panic"
  /\ \A i \in Idx : Kind(i) \in {"write", "read", "set_read_timeout"} =>
       last.ev[i].sock # None /\ last.ev[i].sock \in HeldAt(i - 1)
  /\ (last.op \in {"send", "receive"} /\ last.pre = None) =>
       last.ev # <<>> /\ Kind(1) = "connect"
  /\ \A i \in Idx : (Kind(i) \in {"connect", "set_write_timeout"} /\ ~last.ev[i].ok) =>
       i = Len(last.ev) /\ last.err = ErrOf(Kind(i))

\* send on a Disconnected link has connected and written its frame.
C18_Witness ==
  /\ last.op = "send"
  /\ last.pre = None
  /\ last.tx # <<>>
  /\ \E i \in Idx : Kind(i) = "write" /\ last.ev[i].ok /\ last.ev[i].sock = tcp

\* C19: when connect returns an error no socket is held afterwards and the
\* link is as it was before the call.
C19_ConnectFailsClean ==
  (last.op = "connect" /\ last.err # Ok) =>
    /\ tcp = None
    /\ tcp = last.pre
    /\ open = {}

\* C20: idle, disable or show_qr that fails at its write or its read, or on
\* a short frame, returns holding the socket it connected, with no shutdown
\* or close of it; the next call, if it is idle, disable, show_qr or the
\* drop, starts by shutting that socket down and closing it, and connects
\* no socket before.
C20_FailedExchange ==
  /\ (IsExchange /\ last.err \in {"WriteError", "ReadError", "ShortFrame"}) =>
       /\ tcp # None
       /\ open = {tcp}
       /\ \E i \in Idx : Kind(i) = "connect" /\ last.ev[i].ok /\ last.ev[i].sock = tcp
       /\ \E i \in Idx : Kind(i) \in {"write", "read"} /\ last.ev[i].sock = tcp
       /\ \A i \in Idx : Kind(i) \in {"shutdown", "close"} => last.ev[i].sock # tcp
  /\ ((IsExchange \/ last.op = "drop") /\ last.after = "exchange_err") =>
       /\ last.pre # None
       /\ Len(last.ev) >= 2
       /\ Kind(1) = "shutdown" /\ last.ev[1].sock = last.pre
       /\ last.ev[2] = Ev("close", last.pre, TRUE)
       /\ \A i \in Idx : Kind(i) = "connect" => i > 2 /\ last.ev[i].sock # last.pre

\* A device operation has followed a failed one: it has closed the socket
\* left behind and connected another.
C20_Witness ==
  /\ IsExchange
  /\ last.after = "exchange_err"
  /\ last.pre # None
  /\ Kind(1) = "shutdown"
  /\ \E i \in Idx : Kind(i) = "connect" /\ last.ev[i].ok /\ last.ev[i].sock # last.pre

====
